---- MODULE Spec2Model ----
(***************************************************************************)
(* The Parquet export pipeline of volve-db: export_table_to_parquet,       *)
(* export_all_tables and main of scripts/export/parquet_export.py, with    *)
(* validate_row_count of scripts/export/export_utils.py.                   *)
(*                                                                         *)
(* The relational store is a sequence of rows per table.  The destination  *)
(* directory is a map from path to file content.  Each statement of        *)
(* export_table_to_parquet that touches the store or the directory is one  *)
(* step of an exporter; an exception moves the exporter to its handler, a  *)
(* crash stops it where it stands.                                         *)
(*                                                                         *)
(* The loader of scripts/transform/load_data.py fills the same store: main *)
(* reads the two sheets of the source workbook, runs the stages            *)
(* load_wells_table, load_daily_production_table and                       *)
(* load_monthly_production_table in that order, each ending in one         *)
(* to_sql append, and then calls validate_data_integrity, whose checks are *)
(* one step each.                                                          *)
(***************************************************************************)
EXTENDS Integers, Sequences, FiniteSets, TLC

\* Bounds of the model.
MaxRows == 1
MaxRuns == 2
\* Data rows of a source sheet, and rows of a table handed to the validator.
MaxSrc == 2
MaxLoaded == 2
\* Lines of a manifest template.
MaxLines == 3

\* scripts/transform/constants.py
TABLE_WELLS == "wells"
TABLE_DAILY_PRODUCTION == "daily_production"
TABLE_MONTHLY_PRODUCTION == "monthly_production"

\* scripts/export/export_constants.py
PARQUET_EXTENSION == ".parquet"

\* export_all_tables: the fixed, ordered list of tables.
tables_to_export == <<TABLE_WELLS, TABLE_DAILY_PRODUCTION, TABLE_MONTHLY_PRODUCTION>>

Tables == {tables_to_export[i] : i \in 1..Len(tables_to_export)}

\* One exporter per table of the list; the sequential run uses exporter 1.
Procs == 1..Len(tables_to_export)

\* export_table_to_parquet: the paths it derives from the table name.
file_name(t) == t \o PARQUET_EXTENSION

final_path(t) == file_name(t)

\* A plausible slip: one temp name for every table.
temp_path_shared(t) == "export" \o PARQUET_EXTENSION \o ".tmp"

\* A plausible slip: serializing straight to the final name.
temp_path_final(t) == file_name(t)

temp_path(t) == file_name(t) \o ".tmp"

Paths == {final_path(t) : t \in Tables} \cup {temp_path(t) : t \in Tables}

(***************************************************************************)
(* File contents.  num_rows is what pq.read_metadata reports; complete is  *)
(* FALSE while to_parquet is still writing (no footer yet).  by and        *)
(* checked are history tags: which run and exporter wrote the file (<<0,0>>*)
(* for a file that was there before the first run) and whether that        *)
(* exporter's validate_row_count accepted it.                              *)
(***************************************************************************)
Absent == [kind |-> "absent", num_rows |-> 0, complete |-> FALSE, checked |-> FALSE, by |-> <<0, 0>>]

Artifact(n, c, k, b) == [kind |-> "parquet", num_rows |-> n, complete |-> c, checked |-> k, by |-> b]

PriorArtifact == Artifact(0, TRUE, TRUE, <<0, 0>>)

exists(f, path) == f[path].kind # "absent"

unlink(f, path) == [f EXCEPT ![path] = Absent]

\* Path.rename on POSIX: the source replaces the target in one step.
rename(f, src, dst) == [f EXCEPT ![dst] = f[src], ![src] = Absent]

\* A table of n rows; rows are identified by their position.
TableRows(n) == [i \in 1..n |-> i]

NoMeta == [table_name |-> "", rows |-> 0, file_path |-> ""]

\* A plausible slip: counting one row too many (a header line).
ExportMetadataOffByOne(t, row_count, path) == [table_name |-> t, rows |-> row_count + 1, file_path |-> path]

\* The dictionary export_table_to_parquet returns (size and timestamp left out).
ExportMetadata(t, row_count, path) == [table_name |-> t, rows |-> row_count, file_path |-> path]

\* The state of an exporter that is not running.
IdleExporter == [pc |-> "idle", table |-> "", df |-> <<>>, row_count |-> 0,
  err |-> "none", meta |-> NoMeta, final0 |-> Absent, db_count |-> 0 - 1, parquet_count |-> 0 - 1]

(***************************************************************************)
(* The data of the loader.  A cell of a sheet is a positive number, NULL   *)
(* (an empty cell, NaN, NaT, SQL NULL) or BAD (text that is no number).    *)
(***************************************************************************)
NULL == 0
BAD == 0 - 1

Codes == {1, 2}
Dates == {1, 2}

EmptyStore == [t \in Tables |-> <<>>]

SeqsUpTo(S, n) == UNION {[1..k -> S] : k \in 0..n}

\* Row 0 of the monthly sheet: the units ("Sm3") under the volume columns.
UnitRow == [code |-> NULL, year |-> NULL, month |-> NULL, oil |-> BAD]

\* A monthly sheet: the unit row, then the data rows; complete says whether
\* every column the stage selects is there.
MonthlySheet(complete, rows) == [complete |-> complete, rows |-> <<UnitRow>> \o rows]

NoSheet == [complete |-> TRUE, rows |-> <<>>]

\* The daily sheets read by main: a date, a wellbore code and the attributes
\* of the wellbore on every row.
DailySheets == SeqsUpTo([date : Dates, code : Codes, attr : {1}], MaxSrc)

\* The monthly sheets read by main.
MonthlySheets ==
  {MonthlySheet(c, r) : c \in BOOLEAN,
     r \in SeqsUpTo([code : {1, BAD}, year : {1, BAD}, month : {1, 2}, oil : {1}], MaxSrc)}

\* One daily sheet, and monthly sheets with every kind of cell.
OneDailySheet == {<<[date |-> 1, code |-> 1, attr |-> 1]>>}

MonthlySheetsAllCells ==
  {MonthlySheet(c, r) : c \in BOOLEAN,
     r \in SeqsUpTo([code : {1, NULL, BAD}, year : {1, BAD}, month : {1, 2, BAD},
                     oil : {1, BAD}], MaxSrc)}

\* DataFrame.drop_duplicates(): the first of equal rows is kept.
RECURSIVE drop_duplicates(_)
drop_duplicates(s) ==
  IF s = <<>> THEN <<>>
  ELSE LET r == drop_duplicates(SubSeq(s, 1, Len(s) - 1))
           x == s[Len(s)]
       IN IF \E i \in DOMAIN r : r[i] = x THEN r ELSE Append(r, x)

\* load_wells_table: the wellbore columns of the daily sheet, deduplicated.
wells_df(daily_df) ==
  drop_duplicates([i \in DOMAIN daily_df |-> [code |-> daily_df[i].code, attr |-> daily_df[i].attr]])

\* load_daily_production_table: the mapped columns; the date cells of the
\* daily sheet are dates already, pd.to_datetime leaves them as they are.
daily_production_df(daily_df) ==
  [i \in DOMAIN daily_df |-> [date |-> daily_df[i].date, code |-> daily_df[i].code]]

\* A plausible slip: keeping the unit row.
DropUnitRowKeep(rows) == rows

\* monthly_df[1:]: the row at index 0 goes.
DropUnitRow(rows) == SubSeq(rows, 2, Len(rows))

\* pd.to_numeric(errors='coerce').
to_numeric(x) == IF x = BAD THEN NULL ELSE x

\* pd.to_datetime of year, month and day 1: the first day of the month.
assemble_date(year, month) == IF year = NULL \/ month = NULL THEN NULL ELSE year * 100 + month

\* load_monthly_production_table up to the filter: rows coerced, date built.
monthly_coerced(rows) ==
  [i \in DOMAIN DropUnitRow(rows) |->
     LET r == DropUnitRow(rows)[i]
     IN [date |-> assemble_date(to_numeric(r.year), to_numeric(r.month)),
         code |-> to_numeric(r.code), oil |-> to_numeric(r.oil)]]

notna(r) == r.code # NULL

\* The rows that pass the filter on the wellbore code.
monthly_production_df(rows) == SelectSeq(monthly_coerced(rows), notna)

\* The primary key of a row: create_tables.py.
PrimaryKey(t, r) == IF t = TABLE_WELLS THEN <<r.code>> ELSE <<r.date, r.code>>

\* A plausible slip: a table created without its primary key.
IntegrityErrorNullOnly(t, existing, rows) ==
  \E i \in DOMAIN rows : \E k \in DOMAIN PrimaryKey(t, rows[i]) : PrimaryKey(t, rows[i])[k] = NULL

\* The constraints SQLite enforces on an append: key columns NOT NULL and the
\* key unique.  Foreign keys are not enforced (no PRAGMA foreign_keys).
IntegrityError(t, existing, rows) ==
  LET all == existing \o rows
  IN \/ \E i \in DOMAIN rows : \E k \in DOMAIN PrimaryKey(t, rows[i]) : PrimaryKey(t, rows[i])[k] = NULL
     \/ \E i, j \in DOMAIN all : i # j /\ PrimaryKey(t, all[i]) = PrimaryKey(t, all[j])

\* validate_data_integrity, line 370: the tables of check 1.
validated_tables == <<TABLE_WELLS, TABLE_DAILY_PRODUCTION, TABLE_MONTHLY_PRODUCTION>>

\* A plausible slip: the facts loaded before the wells they refer to.
pipeline_daily_first == <<TABLE_DAILY_PRODUCTION, TABLE_WELLS, TABLE_MONTHLY_PRODUCTION>>

\* main, lines 492-494: the order in which main calls the stages.
pipeline == <<TABLE_WELLS, TABLE_DAILY_PRODUCTION, TABLE_MONTHLY_PRODUCTION>>

\* main of load_data.py before it is called.
IdleLoader == [pc |-> "idle", daily_df |-> <<>>, monthly_df |-> NoSheet, started |-> <<>>,
  done |-> <<>>, counts |-> <<>>, removed_count |-> 0, err |-> "none", printed |-> "",
  validation |-> "none", calls |-> 0, exit |-> 0 - 1, store0 |-> EmptyStore,
  run |-> 1, prev |-> [done |-> <<>>, err |-> "none"]]

(***************************************************************************)
(* The queries of validate_data_integrity.                                 *)
(***************************************************************************)

\* child LEFT JOIN wells ON code: a child row with every matching well, or
\* with no well (0) when none matches.
LeftJoin(child, wells) ==
  {<<i, j>> \in (DOMAIN child) \X (DOMAIN wells) : child[i].code = wells[j].code}
    \cup {<<i, 0>> : i \in {i \in DOMAIN child : \A j \in DOMAIN wells : child[i].code # wells[j].code}}

\* A plausible slip: counting the orphaned codes, not the orphaned rows.
orphan_count_distinct(child, wells) ==
  Cardinality({child[p[1]].code : p \in {q \in LeftJoin(child, wells) : q[2] = 0}})

\* SELECT COUNT(*) ... WHERE w.npd_wellbore_code IS NULL.
orphan_count(child, wells) == Cardinality({p \in LeftJoin(child, wells) : p[2] = 0})

GroupKey(r) == <<r.date, r.code>>

\* A plausible slip: the rows that carry a duplicated key.
duplicate_rows(child) ==
  {i \in DOMAIN child : \E j \in DOMAIN child : j # i /\ GroupKey(child[j]) = GroupKey(child[i])}

\* GROUP BY date, npd_wellbore_code HAVING COUNT(*) > 1: one row per group.
duplicates(child) ==
  {k \in {GroupKey(child[i]) : i \in DOMAIN child} :
     Cardinality({i \in DOMAIN child : GroupKey(child[i]) = k}) > 1}

\* A line the validator prints for a check that failed.
Line(check, t, count) == [check |-> check, table |-> t, count |-> count]

\* validate_data_integrity before it is called; ret is what it returned.
IdleValidator == [pc |-> "idle", all_passed |-> TRUE, checks |-> <<>>, report |-> <<>>,
  ret |-> [all_passed |-> FALSE, counts |-> <<>>]]

(***************************************************************************)
(* export_utils.generate_metadata_readme.  A text is the sequence of its   *)
(* lines; a marker is a line of its own.                                   *)
(***************************************************************************)
START_MARKER == "<!-- START_METADATA_TABLE -->"
END_MARKER == "<!-- END_METADATA_TABLE -->"

\* str.split(marker): the pieces of the text between the occurrences.
RECURSIVE split(_, _)
split(s, marker) ==
  IF \A i \in DOMAIN s : s[i] # marker THEN <<s>>
  ELSE LET k == CHOOSE i \in DOMAIN s : s[i] = marker /\ \A j \in 1..(i - 1) : s[j] # marker
       IN <<SubSeq(s, 1, k - 1)>> \o split(SubSeq(s, k + 1, Len(s)), marker)

\* Lines 111-123: the header of the table and one line for each result; the
\* name of the table stands for its line.
table_content(export_results) ==
  <<"| Table Name | Rows | File Size (MB) | Last Updated |", "| :--- | :--- | :--- | :--- |">>
    \o [i \in DOMAIN export_results |-> export_results[i].table_name]

\* Lines 138-152: the manifest written when no template is used.
default_readme(export_results) ==
  <<"# Volve Parquet Exports", "## Export Metadata">> \o table_content(export_results)
    \o <<"## Usage">>

\* generate_metadata_readme, lines 125-152: what it returns, or the error it
\* raises; rest[1] does not exist when no end marker follows the first start
\* marker.
generate_metadata_readme(export_results, template_exists, content) ==
  IF /\ template_exists
     /\ \E i \in DOMAIN content : content[i] = START_MARKER
     /\ \E i \in DOMAIN content : content[i] = END_MARKER
  THEN LET parts == split(content, START_MARKER)
           rest == split(parts[2], END_MARKER)
       IN IF Len(rest) < 2
          THEN [err |-> "IndexError", out |-> <<>>]
          ELSE [err |-> "none",
                out |-> parts[1] \o <<START_MARKER>> \o table_content(export_results)
                          \o <<END_MARKER>> \o rest[2]]
  ELSE [err |-> "none", out |-> default_readme(export_results)]

\* generate_metadata_readme before it is called.
IdleReadme == [pc |-> "idle", results |-> <<>>, template_exists |-> FALSE, content |-> <<>>,
  err |-> "none", out |-> <<>>]

VARIABLES
  store,      \* the relational store: table -> sequence of rows
  dbExists,   \* the database file exists
  dirMode,    \* the destination: "writable", "readonly" (exists, no create/delete), "uncreatable"
  fs,         \* the destination directory: path -> file content
  readme,     \* the manifest: the run that wrote it (0: as before the first run) and its rows
  ex,         \* the exporters: exporter -> local state of export_table_to_parquet
  run,        \* number of the current run of main
  mpc,        \* position of main / export_all_tables
  idx,        \* export_all_tables: index of the table in the for loop
  results,    \* export_all_tables: the results list
  exitCode,   \* process exit status of main (-1: still running)
  message,    \* what main printed on failure
  attempted,  \* history: tables whose export was called in this run
  reads,      \* history: tables read from the store in this run
  fs0,        \* history: the directory at the start of this run
  prev,       \* history: outcome of the previous run
  srcExists,  \* does the source workbook exist
  ld,         \* load_data.main: position, locals and what it printed
  vd,         \* validate_data_integrity: position, locals and what it printed
  rd          \* generate_metadata_readme: its arguments and what it returned

vars == <<store, dbExists, dirMode, fs, readme, ex, run, mpc, idx, results, exitCode,
          message, attempted, reads, fs0, prev, srcExists, ld, vd, rd>>

mainVars == <<run, mpc, idx, results, exitCode, message, attempted, fs0, prev, readme>>

loadVars == <<srcExists, ld, vd>>

envVars == <<dbExists, dirMode, loadVars, rd>>

exportVars == <<fs, readme, ex, run, mpc, idx, results, exitCode, message, attempted,
                reads, fs0, prev, dirMode, rd>>

\* No previous run.
NoRun == [exit |-> 0 - 1, results |-> <<>>]

(***************************************************************************)
(* Before the first run: any store of up to MaxRows rows per table; the    *)
(* destination is empty or holds the artifacts of an earlier export of     *)
(* every table.  The mode of the destination does not change, so a         *)
(* destination that is not writable never holds a temp file.               *)
(***************************************************************************)
Init ==
  /\ store \in {[t \in Tables |-> TableRows(n[t])] : n \in [Tables -> 0..MaxRows]}
  /\ dbExists \in BOOLEAN
  /\ dirMode \in {"writable", "readonly", "uncreatable"}
  /\ \E had \in {{}, Tables} :
       /\ (dirMode = "uncreatable" => had = {})
       /\ fs = [p \in Paths |-> IF \E t \in had : p = final_path(t) THEN PriorArtifact ELSE Absent]
  /\ readme = [by |-> 0, rows |-> <<>>]
  /\ ex = [p \in Procs |-> IdleExporter]
  /\ run = 0
  /\ mpc = "idle"
  /\ idx = 0
  /\ results = <<>>
  /\ exitCode = 0 - 1
  /\ message = ""
  /\ attempted = <<>>
  /\ reads = {}
  /\ fs0 = fs
  /\ prev = NoRun
  /\ srcExists = TRUE
  /\ ld = IdleLoader
  /\ vd = IdleValidator
  /\ rd = IdleReadme


(***************************************************************************)
(* export_table_to_parquet, one action per statement that touches the      *)
(* store or the directory.                                                 *)
(***************************************************************************)

Running(p) == ex[p].pc \notin {"idle", "returned", "raised", "crashed"}

\* Entering the function: lines 71-82.  final0 remembers the file under the
\* final name at the call.
StartExporter(t) == [IdleExporter EXCEPT !.pc = "mkdir", !.table = t, !.final0 = fs[final_path(t)]]

\* An exception inside the try block: control goes to the handler of line 124.
Raise(p, e) == [ex[p] EXCEPT !.pc = "except", !.err = e]

\* Line 74, before the try block: mkdir(parents=True, exist_ok=True).
Mkdir(p) ==
  /\ ex[p].pc = "mkdir"
  /\ ex' = [ex EXCEPT ![p] = IF dirMode = "uncreatable"
                             THEN [@ EXCEPT !.pc = "raised", !.err = "PermissionError"]
                             ELSE [@ EXCEPT !.pc = "read"]]
  /\ UNCHANGED <<store, fs, reads, mainVars, envVars>>

\* A plausible slip: a read that consumes the rows it returns.
ReadTableDestructive(p) ==
  /\ ex[p].pc = "read"
  /\ ex' = [ex EXCEPT ![p] = [@ EXCEPT !.pc = "write", !.df = store[ex[p].table],
                                        !.row_count = Len(store[ex[p].table])]]
  /\ store' = [store EXCEPT ![ex[p].table] = <<>>]
  /\ reads' = reads \cup {ex[p].table}
  /\ UNCHANGED <<fs, mainVars, envVars>>

\* Lines 87-93: SELECT * into a DataFrame, row_count = len(df); the query may fail.
ReadTable(p) ==
  /\ ex[p].pc = "read"
  /\ \E ok \in BOOLEAN :
       ex' = [ex EXCEPT ![p] = IF ok
                               THEN [@ EXCEPT !.pc = "write", !.df = store[ex[p].table],
                                              !.row_count = Len(store[ex[p].table])]
                               ELSE Raise(p, "Error")]
  /\ store' = store
  /\ reads' = reads \cup {ex[p].table}
  /\ UNCHANGED <<fs, mainVars, envVars>>

\* Line 97, first half: to_parquet opens (creates or truncates) the temp file.
WriteOpen(p) ==
  /\ ex[p].pc = "write"
  /\ IF dirMode = "writable"
     THEN /\ fs' = [fs EXCEPT ![temp_path(ex[p].table)] = Artifact(0, FALSE, FALSE, <<run, p>>)]
          /\ ex' = [ex EXCEPT ![p] = [@ EXCEPT !.pc = "writing"]]
     ELSE /\ fs' = fs
          /\ ex' = [ex EXCEPT ![p] = Raise(p, "PermissionError")]
  /\ UNCHANGED <<store, reads, mainVars, envVars>>

\* Line 97, second half: the rows and the footer are written, or the write fails
\* and leaves the partial file behind.  The bytes go to the file this call
\* opened.  When another call of the same table has since opened temp_path
\* (the same file, truncated again) or renamed it to final_path, the file is
\* written by both: it ends up readable with this call's rows or stays as the
\* other call left it.  When the other call unlinked it, nothing of this write
\* is visible under either name.
WriteFinish(p) ==
  /\ ex[p].pc = "writing"
  /\ LET t == ex[p].table
         loc == IF exists(fs, temp_path(t)) THEN temp_path(t) ELSE final_path(t)
         opened == exists(fs, loc) /\ fs[loc].by[1] = run /\ fs[loc].by[2] # 0
         written == Artifact(Len(ex[p].df), TRUE, FALSE, fs[loc].by)
     IN \E ok \in BOOLEAN :
          IF ok
          THEN /\ ex' = [ex EXCEPT ![p] = [@ EXCEPT !.pc = "validate"]]
               /\ IF opened /\ fs[loc].by = <<run, p>>
                  THEN fs' = [fs EXCEPT ![loc] = written]
                  ELSE IF opened
                  THEN \E rewritten \in BOOLEAN :
                         fs' = IF rewritten THEN [fs EXCEPT ![loc] = written] ELSE fs
                  ELSE fs' = fs
          ELSE /\ fs' = fs
               /\ ex' = [ex EXCEPT ![p] = Raise(p, "Error")]
  /\ UNCHANGED <<store, reads, mainVars, envVars>>

\* A plausible slip: the count of the frame read in step 1.
get_table_row_count_of_frame(t) == Len(ex[1].df)

\* export_utils.get_table_row_count: a fresh SELECT COUNT(*).
get_table_row_count(t) == Len(store[t])

\* export_utils.get_parquet_row_count: the footer's num_rows.
get_parquet_row_count(path) == fs[path].num_rows

\* A plausible slip: a comparison that always succeeds.
validate_row_count_always(db_count, parquet_count) == TRUE

\* export_utils.validate_row_count, lines 74-78.
validate_row_count(db_count, parquet_count) == db_count = parquet_count

\* Line 100: validate_row_count(table_name, db_path, temp_path).  Either query
\* may fail; read_metadata fails on a missing or unfinished file.
Validate(p) ==
  /\ ex[p].pc = "validate"
  /\ LET t == ex[p].table
         tmp == temp_path(t)
     IN \E dbok \in BOOLEAN :
          IF ~dbok \/ ~exists(fs, tmp) \/ ~fs[tmp].complete
          THEN /\ ex' = [ex EXCEPT ![p] = Raise(p, "Error")]
               /\ fs' = fs
          ELSE LET db_count == get_table_row_count(t)
                   parquet_count == get_parquet_row_count(tmp)
               IN IF validate_row_count(db_count, parquet_count)
                  THEN /\ ex' = [ex EXCEPT ![p] = [@ EXCEPT !.pc = "promote",
                                   !.db_count = db_count, !.parquet_count = parquet_count]]
                       /\ fs' = [fs EXCEPT ![tmp] = [@ EXCEPT !.checked = TRUE]]
                  ELSE /\ ex' = [ex EXCEPT ![p] = [@ EXCEPT !.pc = "mismatch",
                                   !.db_count = db_count, !.parquet_count = parquet_count]]
                       /\ fs' = fs
  /\ UNCHANGED <<store, reads, mainVars, envVars>>

\* A plausible slip: a handler that forgets the temp file.
CleanupTempSkip(p) ==
  /\ ex[p].pc \in {"mismatch", "except"}
  /\ ex' = [ex EXCEPT ![p] = IF @.pc = "mismatch"
                             THEN [@ EXCEPT !.pc = "except", !.err = "ValueError"]
                             ELSE [@ EXCEPT !.pc = "raised"]]
  /\ UNCHANGED <<fs, store, reads, mainVars, envVars>>

\* Lines 101-103 and lines 125-128: if temp_path.exists(): temp_path.unlink(),
\* then raise.  After a mismatch the ValueError goes on to the handler.
CleanupTemp(p) ==
  /\ ex[p].pc \in {"mismatch", "except"}
  /\ LET tmp == temp_path(ex[p].table)
     IN fs' = IF exists(fs, tmp) THEN unlink(fs, tmp) ELSE fs
  /\ ex' = [ex EXCEPT ![p] = IF @.pc = "mismatch"
                             THEN [@ EXCEPT !.pc = "except", !.err = "ValueError"]
                             ELSE [@ EXCEPT !.pc = "raised"]]
  /\ UNCHANGED <<store, reads, mainVars, envVars>>

\* Lines 106-107: if final_path.exists(): final_path.unlink().
PromoteUnlink(p) ==
  /\ ex[p].pc = "promote"
  /\ LET fin == final_path(ex[p].table)
     IN \E ok \in BOOLEAN :
          IF ~exists(fs, fin)
          THEN /\ fs' = fs
               /\ ex' = [ex EXCEPT ![p] = [@ EXCEPT !.pc = "rename"]]
          ELSE IF ok
          THEN /\ fs' = unlink(fs, fin)
               /\ ex' = [ex EXCEPT ![p] = [@ EXCEPT !.pc = "rename"]]
          ELSE /\ fs' = fs
               /\ ex' = [ex EXCEPT ![p] = Raise(p, "Error")]
  /\ UNCHANGED <<store, reads, mainVars, envVars>>

\* A plausible slip: copying the temp file instead of renaming it.
PromoteRenameCopy(p) ==
  /\ ex[p].pc = "rename"
  /\ exists(fs, temp_path(ex[p].table))
  /\ fs' = [fs EXCEPT ![final_path(ex[p].table)] = fs[temp_path(ex[p].table)]]
  /\ ex' = [ex EXCEPT ![p] = [@ EXCEPT !.pc = "metadata"]]
  /\ UNCHANGED <<store, reads, mainVars, envVars>>

\* Line 108: temp_path.rename(final_path); it fails when the temp file is gone
\* or the file system refuses.
PromoteRename(p) ==
  /\ ex[p].pc = "rename"
  /\ LET t == ex[p].table
     IN \E ok \in BOOLEAN :
          IF ok /\ exists(fs, temp_path(t))
          THEN /\ fs' = rename(fs, temp_path(t), final_path(t))
               /\ ex' = [ex EXCEPT ![p] = [@ EXCEPT !.pc = "metadata"]]
          ELSE /\ fs' = fs
               /\ ex' = [ex EXCEPT ![p] = Raise(p, "Error")]
  /\ UNCHANGED <<store, reads, mainVars, envVars>>

\* Lines 111-122: get_file_size_mb(final_path) and the returned dictionary.
Metadata(p) ==
  /\ ex[p].pc = "metadata"
  /\ LET t == ex[p].table
     IN ex' = [ex EXCEPT ![p] = IF exists(fs, final_path(t))
                                THEN [@ EXCEPT !.pc = "returned",
                                       !.meta = ExportMetadata(t, ex[p].row_count, final_path(t))]
                                ELSE Raise(p, "Error")]
  /\ UNCHANGED <<store, fs, reads, mainVars, envVars>>

ExporterStep(p) ==
  \/ Mkdir(p)
  \/ ReadTable(p)
  \/ WriteOpen(p)
  \/ WriteFinish(p)
  \/ Validate(p)
  \/ CleanupTemp(p)
  \/ PromoteUnlink(p)
  \/ PromoteRename(p)
  \/ Metadata(p)


(***************************************************************************)
(* main and export_all_tables: one process, exporter 1 is the call of      *)
(* export_table_to_parquet in the for loop.                                *)
(***************************************************************************)

MainRunning == mpc \in {"check_db", "mkdir", "loop", "in_export", "readme"}

\* A plausible slip: a handler that prints and forgets the exit status.
ExitZero(code, msg) ==
  /\ mpc' = "exited"
  /\ exitCode' = 0
  /\ message' = msg

\* print(...) and sys.exit(code).
Exit(code, msg) ==
  /\ mpc' = "exited"
  /\ exitCode' = code
  /\ message' = msg

\* A plausible slip: the generic handler placed before the PermissionError one.
MessageForGeneric(err) == "FATAL ERROR"

\* main, lines 207-212: the two except clauses.
MessageFor(err) == IF err = "PermissionError" THEN "Permission denied" ELSE "FATAL ERROR"

\* The command is started (again): python scripts/export/parquet_export.py.
MainStart ==
  /\ mpc \in {"idle", "exited", "crashed"}
  /\ run < MaxRuns
  /\ run' = run + 1
  /\ mpc' = "check_db"
  /\ prev' = IF run = 0 THEN NoRun ELSE [exit |-> exitCode, results |-> results]
  /\ idx' = 0
  /\ results' = <<>>
  /\ exitCode' = 0 - 1
  /\ message' = ""
  /\ attempted' = <<>>
  /\ reads' = {}
  /\ fs0' = fs
  /\ ex' = [ex EXCEPT ![1] = IdleExporter]
  /\ UNCHANGED <<store, fs, readme, envVars>>

\* main, lines 180-183.
MainCheckDb ==
  /\ mpc = "check_db"
  /\ IF dbExists
     THEN mpc' = "mkdir" /\ UNCHANGED <<exitCode, message>>
     ELSE Exit(1, "Database not found")
  /\ UNCHANGED <<store, fs, readme, ex, run, idx, results, attempted, reads, fs0, prev, envVars>>

\* main, lines 186-187 and the head of export_all_tables (lines 147-161).
MainMkdir ==
  /\ mpc = "mkdir"
  /\ IF dirMode = "uncreatable"
     THEN Exit(1, MessageFor("PermissionError")) /\ UNCHANGED idx
     ELSE mpc' = "loop" /\ idx' = 1 /\ UNCHANGED <<exitCode, message>>
  /\ UNCHANGED <<store, fs, readme, ex, run, results, attempted, reads, fs0, prev, envVars>>

\* export_all_tables, line 164: the call of export_table_to_parquet(table, ...).
ExportAllCall ==
  /\ mpc = "loop"
  /\ idx <= Len(tables_to_export)
  /\ ex' = [ex EXCEPT ![1] = StartExporter(tables_to_export[idx])]
  /\ attempted' = Append(attempted, tables_to_export[idx])
  /\ mpc' = "in_export"
  /\ UNCHANGED <<store, fs, readme, run, idx, results, exitCode, message, reads, fs0, prev, envVars>>

\* export_all_tables, line 165 and the loop's end (lines 167-171).
ExportAllAppend ==
  /\ mpc = "in_export"
  /\ ex[1].pc = "returned"
  /\ results' = Append(results, ex[1].meta)
  /\ idx' = idx + 1
  /\ mpc' = IF idx = Len(tables_to_export) THEN "readme" ELSE "loop"
  /\ UNCHANGED <<store, fs, readme, ex, run, exitCode, message, attempted, reads, fs0, prev, envVars>>

\* A loop that notes the failure and goes on to the next table.
ExportAllRaiseContinue ==
  /\ mpc = "in_export"
  /\ ex[1].pc = "raised"
  /\ idx' = idx + 1
  /\ mpc' = IF idx = Len(tables_to_export) THEN "readme" ELSE "loop"
  /\ UNCHANGED <<store, fs, readme, ex, run, results, exitCode, message, attempted, reads, fs0, prev, envVars>>

\* A plausible slip: a loop that stops at the failure and hands the results
\* it has to main, which writes the manifest.
ExportAllRaiseManifest ==
  /\ mpc = "in_export"
  /\ ex[1].pc = "raised"
  /\ mpc' = "readme"
  /\ UNCHANGED <<store, fs, readme, ex, run, idx, results, exitCode, message, attempted, reads,
                 fs0, prev, envVars>>

\* The for loop has no try: the exception of export_table_to_parquet leaves
\* export_all_tables (its results list is lost) and reaches main's handlers.
ExportAllRaise ==
  /\ mpc = "in_export"
  /\ ex[1].pc = "raised"
  /\ results' = <<>>
  /\ Exit(1, MessageFor(ex[1].err))
  /\ UNCHANGED <<store, fs, readme, ex, run, idx, attempted, reads, fs0, prev, envVars>>

\* main, lines 193-205: the manifest is generated from results and written.
MainWriteReadme ==
  /\ mpc = "readme"
  /\ readme' = [by |-> run, rows |-> results]
  /\ Exit(0, "")
  /\ UNCHANGED <<store, fs, ex, run, idx, results, attempted, reads, fs0, prev, envVars>>

\* The process is killed: nothing more runs, no handler, no cleanup.
MainCrash ==
  /\ MainRunning
  /\ mpc' = "crashed"
  /\ exitCode' = 137
  /\ ex' = [ex EXCEPT ![1] = IF Running(1) THEN [@ EXCEPT !.pc = "crashed"] ELSE @]
  /\ UNCHANGED <<store, fs, readme, run, idx, results, message, attempted, reads, fs0, prev, envVars>>

Next ==
  \/ MainStart
  \/ MainCheckDb
  \/ MainMkdir
  \/ ExportAllCall
  \/ ExportAllAppend
  \/ ExportAllRaise
  \/ MainWriteReadme
  \/ MainCrash
  \/ ExporterStep(1)

\* Sequential runs of main on a store nobody writes to.
Spec == Init /\ [][Next]_vars


(***************************************************************************)
(* One run of main while a loader appends to the store: load_data.py       *)
(* writes with to_sql(if_exists='append'), one row here per step.          *)
(***************************************************************************)
StoreAppend ==
  /\ \E t \in Tables :
       /\ Len(store[t]) < MaxRows
       /\ store' = [store EXCEPT ![t] = Append(@, Len(@) + 1)]
  /\ UNCHANGED <<fs, ex, reads, mainVars, envVars>>

MainStartOnce == run = 0 /\ MainStart

NextChurn ==
  \/ MainStartOnce
  \/ MainCheckDb
  \/ MainMkdir
  \/ ExportAllCall
  \/ ExportAllAppend
  \/ ExportAllRaise
  \/ MainWriteReadme
  \/ MainCrash
  \/ ExporterStep(1)
  \/ StoreAppend

SpecChurn == Init /\ [][NextChurn]_vars

(***************************************************************************)
(* One exporter per table, all running at once in the same directory       *)
(* (export_table_to_parquet called from worker threads); main is not       *)
(* involved.                                                               *)
(***************************************************************************)
ParCall(p) ==
  /\ mpc = "idle"
  /\ ex[p].pc = "idle"
  /\ ex' = [ex EXCEPT ![p] = StartExporter(tables_to_export[p])]
  /\ UNCHANGED <<store, fs, reads, mainVars, envVars>>

NextPar == \E p \in Procs : ParCall(p) \/ ExporterStep(p)

InitPar == Init /\ dbExists

SpecPar == InitPar /\ [][NextPar]_vars

(***************************************************************************)
(* Two calls of export_table_to_parquet for the same table, running at     *)
(* once in the same directory: both derive the same temp_path and the same *)
(* final_path from the table name (lines 77-79).                           *)
(***************************************************************************)
SameProcs == {1, 2}

SameCall(p, t) ==
  /\ mpc = "idle"
  /\ ex[p].pc = "idle"
  /\ \A q \in SameProcs : ex[q].pc # "idle" => ex[q].table = t
  /\ ex' = [ex EXCEPT ![p] = StartExporter(t)]
  /\ UNCHANGED <<store, fs, reads, mainVars, envVars>>

NextSame == \E p \in SameProcs : (\E t \in Tables : SameCall(p, t)) \/ ExporterStep(p)

SpecSame == InitPar /\ [][NextSame]_vars

(***************************************************************************)
(* load_data.py: main, the three stages and validate_data_integrity.       *)
(***************************************************************************)

\* The stage main calls next.
NextStage(t) == ld.pc = "stage" /\ pipeline[Len(ld.done) + 1] = t

\* A stage returns the number of rows it loaded.
StageReturns(t, n) ==
  [ld EXCEPT !.started = Append(@, t), !.done = Append(@, t), !.counts = Append(@, n),
             !.pc = IF Len(ld.done) + 1 = Len(pipeline) THEN "validate" ELSE "stage"]

\* A stage raises: control goes to the handler of main, line 512.
StageRaises(t, e) == [ld EXCEPT !.started = Append(@, t), !.pc = "except", !.err = e]

\* main, lines 465-468: no source workbook, main prints and returns.
LoaderCheckSource ==
  /\ ld.pc = "check_src"
  /\ ld' = IF srcExists THEN [ld EXCEPT !.pc = "check_db"]
           ELSE [ld EXCEPT !.pc = "returned", !.exit = 0, !.printed = "Source file not found"]
  /\ UNCHANGED <<store, vd, srcExists, dbExists, exportVars>>

\* main, lines 471-475: no database file, main prints and returns.
LoaderCheckDb ==
  /\ ld.pc = "check_db"
  /\ ld' = IF dbExists THEN [ld EXCEPT !.pc = "read"]
           ELSE [ld EXCEPT !.pc = "returned", !.exit = 0, !.printed = "Database not found"]
  /\ UNCHANGED <<store, vd, srcExists, dbExists, exportVars>>

\* main, lines 478-486: the two sheets are read.
LoaderReadExcel(D, M) ==
  /\ ld.pc = "read"
  /\ \E d \in D, m \in M :
       ld' = [ld EXCEPT !.pc = "stage", !.daily_df = d, !.monthly_df = m]
  /\ UNCHANGED <<store, vd, srcExists, dbExists, exportVars>>

\* load_wells_table: one append of the deduplicated wellbore rows.
load_wells_table ==
  /\ NextStage(TABLE_WELLS)
  /\ LET df == wells_df(ld.daily_df)
     IN IF IntegrityError(TABLE_WELLS, store[TABLE_WELLS], df)
        THEN /\ ld' = StageRaises(TABLE_WELLS, "IntegrityError")
             /\ store' = store
        ELSE /\ ld' = StageReturns(TABLE_WELLS, Len(df))
             /\ store' = [store EXCEPT ![TABLE_WELLS] = @ \o df]
  /\ UNCHANGED <<vd, srcExists, dbExists, exportVars>>

\* load_daily_production_table: one append of every row of the daily sheet.
load_daily_production_table ==
  /\ NextStage(TABLE_DAILY_PRODUCTION)
  /\ LET df == daily_production_df(ld.daily_df)
     IN IF IntegrityError(TABLE_DAILY_PRODUCTION, store[TABLE_DAILY_PRODUCTION], df)
        THEN /\ ld' = StageRaises(TABLE_DAILY_PRODUCTION, "IntegrityError")
             /\ store' = store
        ELSE /\ ld' = StageReturns(TABLE_DAILY_PRODUCTION, Len(df))
             /\ store' = [store EXCEPT ![TABLE_DAILY_PRODUCTION] = @ \o df]
  /\ UNCHANGED <<vd, srcExists, dbExists, exportVars>>

\* load_monthly_production_table: unit row dropped, cells coerced, date
\* built, rows without a wellbore code filtered out, one append of the rest.
\* A column the stage selects that is not in the sheet is a KeyError.
load_monthly_production_table ==
  /\ NextStage(TABLE_MONTHLY_PRODUCTION)
  /\ LET m == ld.monthly_df
         df == monthly_production_df(m.rows)
     IN IF ~m.complete
        THEN /\ ld' = StageRaises(TABLE_MONTHLY_PRODUCTION, "KeyError")
             /\ store' = store
        ELSE IF IntegrityError(TABLE_MONTHLY_PRODUCTION, store[TABLE_MONTHLY_PRODUCTION], df)
        THEN /\ ld' = [StageRaises(TABLE_MONTHLY_PRODUCTION, "IntegrityError") EXCEPT
                         !.removed_count = Len(monthly_coerced(m.rows)) - Len(df)]
             /\ store' = store
        ELSE /\ ld' = [StageReturns(TABLE_MONTHLY_PRODUCTION, Len(df)) EXCEPT
                         !.removed_count = Len(monthly_coerced(m.rows)) - Len(df)]
             /\ store' = [store EXCEPT ![TABLE_MONTHLY_PRODUCTION] = @ \o df]
  /\ UNCHANGED <<vd, srcExists, dbExists, exportVars>>

\* main, line 497: the call of validate_data_integrity.
LoaderValidate ==
  /\ ld.pc = "validate"
  /\ ld' = [ld EXCEPT !.pc = "validating", !.calls = @ + 1]
  /\ vd' = [IdleValidator EXCEPT !.pc = "connect"]
  /\ UNCHANGED <<store, srcExists, dbExists, exportVars>>

\* validate_data_integrity, line 366: the connection; it may fail.
ValidatorConnect ==
  /\ vd.pc = "connect"
  /\ \E ok \in BOOLEAN :
       vd' = IF ok THEN [vd EXCEPT !.pc = "check1"] ELSE [vd EXCEPT !.pc = "raised"]
  /\ UNCHANGED <<store, ld, srcExists, dbExists, exportVars>>

\* Check 1, lines 368-376: every table has rows.
Check1RowCounts ==
  /\ vd.pc = "check1"
  /\ LET lines == [i \in DOMAIN validated_tables |->
                     Line("empty", validated_tables[i], Len(store[validated_tables[i]]))]
         IsEmpty(l) == l.count = 0
         failed == SelectSeq(lines, IsEmpty)
     IN vd' = [vd EXCEPT !.pc = "check2", !.checks = Append(@, 1),
                         !.report = @ \o failed,
                         !.all_passed = @ /\ failed = <<>>]
  /\ UNCHANGED <<store, ld, srcExists, dbExists, exportVars>>

\* A plausible slip: a referential check that prints and does not fail.
AfterOrphanCheckReportOnly(n, t, c, pc) ==
  [vd EXCEPT !.pc = pc, !.checks = Append(@, n),
             !.report = IF c > 0 THEN Append(@, Line("orphans", t, c)) ELSE @]

\* What a referential check leaves in the validator's locals.
AfterOrphanCheck(n, t, c, pc) ==
  [vd EXCEPT !.pc = pc, !.checks = Append(@, n),
             !.report = IF c > 0 THEN Append(@, Line("orphans", t, c)) ELSE @,
             !.all_passed = @ /\ c = 0]

\* A plausible slip: returning at the first failed check.
Check2DailyOrphansFailFast ==
  /\ vd.pc = "check2"
  /\ LET c == orphan_count(store[TABLE_DAILY_PRODUCTION], store[TABLE_WELLS])
     IN vd' = IF c > 0
              THEN [AfterOrphanCheck(2, TABLE_DAILY_PRODUCTION, c, "returned") EXCEPT
                      !.ret = [all_passed |-> FALSE, counts |-> <<>>]]
              ELSE AfterOrphanCheck(2, TABLE_DAILY_PRODUCTION, c, "check3")
  /\ UNCHANGED <<store, ld, srcExists, dbExists, exportVars>>

\* Check 2, lines 378-391: daily rows whose wellbore is not in wells.
Check2DailyOrphans ==
  /\ vd.pc = "check2"
  /\ vd' = AfterOrphanCheck(2, TABLE_DAILY_PRODUCTION,
             orphan_count(store[TABLE_DAILY_PRODUCTION], store[TABLE_WELLS]), "check3")
  /\ UNCHANGED <<store, ld, srcExists, dbExists, exportVars>>

\* A plausible slip: a check that repairs what it finds.
Check3MonthlyOrphansRepair ==
  /\ vd.pc = "check3"
  /\ vd' = AfterOrphanCheck(3, TABLE_MONTHLY_PRODUCTION,
             orphan_count(store[TABLE_MONTHLY_PRODUCTION], store[TABLE_WELLS]), "check4")
  /\ LET HasWell(r) == \E j \in DOMAIN store[TABLE_WELLS] : store[TABLE_WELLS][j].code = r.code
     IN store' = [store EXCEPT ![TABLE_MONTHLY_PRODUCTION] = SelectSeq(@, HasWell)]
  /\ UNCHANGED <<ld, srcExists, dbExists, exportVars>>

\* Check 3, lines 393-406: monthly rows whose wellbore is not in wells.
Check3MonthlyOrphans ==
  /\ vd.pc = "check3"
  /\ vd' = AfterOrphanCheck(3, TABLE_MONTHLY_PRODUCTION,
             orphan_count(store[TABLE_MONTHLY_PRODUCTION], store[TABLE_WELLS]), "check4")
  /\ UNCHANGED <<store, ld, srcExists, dbExists, exportVars>>

\* Check 4, lines 408-422: the date ranges are printed.
Check4DateRanges ==
  /\ vd.pc = "check4"
  /\ vd' = [vd EXCEPT !.pc = "check5", !.checks = Append(@, 4)]
  /\ UNCHANGED <<store, ld, srcExists, dbExists, exportVars>>

\* Check 5, lines 424-450: duplicated keys in daily, then in monthly.
Check5Duplicates ==
  /\ vd.pc = "check5"
  /\ LET lines == <<Line("duplicates", TABLE_DAILY_PRODUCTION,
                         Cardinality(duplicates(store[TABLE_DAILY_PRODUCTION]))),
                    Line("duplicates", TABLE_MONTHLY_PRODUCTION,
                         Cardinality(duplicates(store[TABLE_MONTHLY_PRODUCTION])))>>
         Failed(l) == l.count > 0
         failed == SelectSeq(lines, Failed)
     IN vd' = [vd EXCEPT !.pc = "return", !.checks = Append(@, 5),
                         !.report = @ \o failed,
                         !.all_passed = @ /\ failed = <<>>]
  /\ UNCHANGED <<store, ld, srcExists, dbExists, exportVars>>

\* Line 452: return all_passed, a boolean and nothing else.
ValidatorReturn ==
  /\ vd.pc = "return"
  /\ vd' = [vd EXCEPT !.pc = "returned", !.ret = [all_passed |-> vd.all_passed, counts |-> <<>>]]
  /\ UNCHANGED <<store, ld, srcExists, dbExists, exportVars>>

ValidatorStep ==
  \/ ValidatorConnect
  \/ Check1RowCounts
  \/ Check2DailyOrphans
  \/ Check3MonthlyOrphans
  \/ Check4DateRanges
  \/ Check5Duplicates
  \/ ValidatorReturn

\* A plausible slip: a failed validation ends the run with an error.
LoaderSummaryStrict ==
  /\ ld.pc = "validating"
  /\ vd.pc = "returned"
  /\ ld' = IF vd.ret.all_passed
           THEN [ld EXCEPT !.pc = "done", !.exit = 0, !.validation = "PASSED",
                           !.printed = "ETL PIPELINE COMPLETE"]
           ELSE [ld EXCEPT !.pc = "raised", !.exit = 1, !.validation = "FAILED",
                           !.printed = "ERROR during ETL pipeline"]
  /\ UNCHANGED <<store, vd, srcExists, dbExists, exportVars>>

\* main, lines 499-510: the summary with the verdict; main returns.
LoaderSummary ==
  /\ ld.pc = "validating"
  /\ vd.pc = "returned"
  /\ ld' = [ld EXCEPT !.pc = "done", !.exit = 0,
                      !.validation = IF vd.ret.all_passed THEN "PASSED" ELSE "FAILED",
                      !.printed = "ETL PIPELINE COMPLETE"]
  /\ UNCHANGED <<store, vd, srcExists, dbExists, exportVars>>

\* The validator raised inside the try block of main.
LoaderValidatorRaised ==
  /\ ld.pc = "validating"
  /\ vd.pc = "raised"
  /\ ld' = [ld EXCEPT !.pc = "except", !.err = "OperationalError"]
  /\ UNCHANGED <<store, vd, srcExists, dbExists, exportVars>>

\* A plausible slip: a handler that takes back what the run appended.
LoaderExceptRollback ==
  /\ ld.pc = "except"
  /\ ld' = [ld EXCEPT !.pc = "raised", !.exit = 1, !.printed = "ERROR during ETL pipeline"]
  /\ store' = ld.store0
  /\ UNCHANGED <<vd, srcExists, dbExists, exportVars>>

\* main, lines 512-515: the handler prints and raises again.
LoaderExcept ==
  /\ ld.pc = "except"
  /\ ld' = [ld EXCEPT !.pc = "raised", !.exit = 1, !.printed = "ERROR during ETL pipeline"]
  /\ UNCHANGED <<store, vd, srcExists, dbExists, exportVars>>

\* The export is not running while the loader runs.
ExportIdle ==
  /\ dirMode = "writable"
  /\ fs = [p \in Paths |-> Absent]
  /\ readme = [by |-> 0, rows |-> <<>>]
  /\ ex = [p \in Procs |-> IdleExporter]
  /\ run = 0
  /\ mpc = "idle"
  /\ idx = 0
  /\ results = <<>>
  /\ exitCode = 0 - 1
  /\ message = ""
  /\ attempted = <<>>
  /\ reads = {}
  /\ fs0 = fs
  /\ prev = NoRun

\* main is called on the schema create_tables made: three empty tables.
InitLoad ==
  /\ store = EmptyStore
  /\ dbExists \in BOOLEAN
  /\ srcExists \in BOOLEAN
  /\ ld = [IdleLoader EXCEPT !.pc = "check_src"]
  /\ vd = IdleValidator
  /\ rd = IdleReadme
  /\ ExportIdle

LoaderStep(D, M) ==
  \/ LoaderCheckSource
  \/ LoaderCheckDb
  \/ LoaderReadExcel(D, M)
  \/ load_wells_table
  \/ load_daily_production_table
  \/ load_monthly_production_table
  \/ LoaderValidate
  \/ LoaderSummary
  \/ LoaderValidatorRaised
  \/ LoaderExcept

NextLoad == LoaderStep(DailySheets, MonthlySheets) \/ ValidatorStep

SpecLoad == InitLoad /\ [][NextLoad]_vars

\* The monthly stage on every kind of cell, after one daily sheet.
NextMonthly == LoaderStep(OneDailySheet, MonthlySheetsAllCells) \/ ValidatorStep

SpecMonthly == InitLoad /\ [][NextMonthly]_vars

\* The validator called on any store of up to MaxLoaded rows per table.
InitValidate ==
  /\ \E w \in SeqsUpTo([code : Codes, attr : {1}], MaxLoaded),
        d \in SeqsUpTo([date : Dates, code : Codes], MaxLoaded),
        m \in SeqsUpTo([date : Dates, code : Codes, oil : {1}], MaxLoaded) :
       store = [t \in Tables |-> IF t = TABLE_WELLS THEN w
                                 ELSE IF t = TABLE_DAILY_PRODUCTION THEN d ELSE m]
  /\ dbExists = TRUE
  /\ srcExists = TRUE
  /\ ld = IdleLoader
  /\ vd = [IdleValidator EXCEPT !.pc = "connect"]
  /\ rd = IdleReadme
  /\ ExportIdle

SpecValidate == InitValidate /\ [][ValidatorStep]_vars


\* Daily sheets in which a wellbore may come with more than one spelling of
\* its attributes, and a monthly sheet of the unit row alone.
DailySheetsAttrs == SeqsUpTo([date : Dates, code : Codes, attr : {1, 2}], MaxSrc)

UnitRowOnly == {MonthlySheet(TRUE, <<>>)}

NextWells == LoaderStep(DailySheetsAttrs, UnitRowOnly) \/ ValidatorStep

SpecWells == InitLoad /\ [][NextWells]_vars


\* main is called a second time on the store the first run left; prev keeps
\* how the first run ended.
LoaderRerun ==
  /\ ld.pc \in {"returned", "raised", "done"}
  /\ ld.run = 1
  /\ ld' = [IdleLoader EXCEPT !.pc = "check_src", !.run = 2, !.store0 = store,
                              !.prev = [done |-> ld.done, err |-> ld.err]]
  /\ vd' = IdleValidator
  /\ UNCHANGED <<store, srcExists, dbExists, exportVars>>

\* The sheets of the runs of a repeated load: one date, one month.
ReloadDailySheets == SeqsUpTo([date : {1}, code : Codes, attr : {1}], MaxSrc)

ReloadMonthlySheets ==
  {MonthlySheet(c, r) : c \in BOOLEAN,
     r \in SeqsUpTo([code : {1}, year : {1, BAD}, month : {1}, oil : {1}], MaxSrc)}

NextReload == LoaderStep(ReloadDailySheets, ReloadMonthlySheets) \/ ValidatorStep \/ LoaderRerun

SpecReload == InitLoad /\ [][NextReload]_vars


\* The call generate_metadata_readme(results, template_path) of main, line 194.
GenerateReadme ==
  /\ rd.pc = "call"
  /\ LET r == generate_metadata_readme(rd.results, rd.template_exists, rd.content)
     IN rd' = [rd EXCEPT !.pc = IF r.err = "none" THEN "returned" ELSE "raised",
                         !.err = r.err, !.out = r.out]
  /\ UNCHANGED <<store, srcExists, dbExists, ld, vd, fs, readme, ex, run, mpc, idx, results,
                 exitCode, message, attempted, reads, fs0, prev, dirMode>>

\* The texts a template may hold: markers and two other lines, in any order.
Templates == SeqsUpTo({START_MARKER, END_MARKER, "# Title", "text"}, MaxLines)

\* The results of an export of all tables.
AllResults ==
  {[i \in DOMAIN tables_to_export |->
      ExportMetadata(tables_to_export[i], n[i], final_path(tables_to_export[i]))] :
     n \in [DOMAIN tables_to_export -> 0..MaxRows]}

\* The function is called with the results of an export and any template,
\* or none.
InitReadme ==
  /\ store = EmptyStore
  /\ dbExists = TRUE
  /\ srcExists = TRUE
  /\ ld = IdleLoader
  /\ vd = IdleValidator
  /\ ExportIdle
  /\ \E r \in AllResults, e \in BOOLEAN, c \in Templates :
       /\ (~e => c = <<>>)
       /\ rd = [IdleReadme EXCEPT !.pc = "call", !.results = r, !.template_exists = e,
                                  !.content = c]

SpecReadme == InitReadme /\ [][GenerateReadme]_vars


(***************************************************************************)
(* Properties.                                                             *)
(***************************************************************************)

\* C1: in every state of a run, crashes and exceptions included, the file
\* under the final name <table>.parquet is absent, or the file that was there
\* when the run started, or an artifact of this run that is completely
\* written and was accepted by the row-count check.
C1_FinalNeverPartial ==
  \A t \in Tables :
    LET f == fs[final_path(t)]
    IN \/ ~exists(fs, final_path(t))
       \/ f = fs0[final_path(t)]
       \/ f.complete /\ f.checked /\ f.by = <<run, 1>>

\* The crash of the scenario: temp file written, not yet renamed, the previous
\* version still under the final name.
C1_Witness ==
  /\ mpc = "crashed"
  /\ \E t \in Tables :
       /\ exists(fs, temp_path(t))
       /\ fs[temp_path(t)].complete
       /\ fs[final_path(t)] = PriorArtifact

\* C2: when validation saw a temp artifact whose row count differs from the
\* source's, the export never reaches promotion: the temp artifact is deleted,
\* the error is the integrity error, and the file under the final name is the
\* one that was there at the call.
C2_MismatchNeverPromoted ==
  \A p \in Procs :
    ex[p].db_count # ex[p].parquet_count =>
      /\ ex[p].pc \in {"mismatch", "except", "raised", "crashed"}
      /\ fs[final_path(ex[p].table)] = ex[p].final0
      /\ ex[p].pc \in {"except", "raised"} =>
           ex[p].err = "ValueError" /\ ~exists(fs, temp_path(ex[p].table))

\* A mismatch was raised to the caller and the prior artifact is untouched.
C2_Witness ==
  /\ ex[1].pc = "raised"
  /\ ex[1].err = "ValueError"
  /\ ex[1].db_count # ex[1].parquet_count
  /\ ex[1].final0 = PriorArtifact
  /\ fs[final_path(ex[1].table)] = PriorArtifact

\* C3: when export_table_to_parquet has returned, the file under the final
\* name exists, its row count is the row count of the source table, and the
\* rows value of the returned metadata equals both.
C3_ReturnedCountsAgree ==
  \A p \in Procs :
    ex[p].pc = "returned" =>
      LET t == ex[p].table
      IN /\ exists(fs, final_path(t))
         /\ fs[final_path(t)].num_rows = Len(store[t])
         /\ ex[p].meta.rows = Len(store[t])

\* A non-empty table was exported and the call returned.
C3_Witness ==
  /\ ex[1].pc = "returned"
  /\ Len(store[ex[1].table]) > 0
  /\ ex[1].meta.rows > 0

\* C4: when an exception of export_table_to_parquet reaches the caller, no
\* <table>.parquet.tmp of that table exists in the destination directory.
C4_NoTempAfterFailure ==
  \A p \in Procs :
    ex[p].pc = "raised" => ~exists(fs, temp_path(ex[p].table))

\* An export failed with a temp file on disk from a crashed earlier run.
C4_Witness ==
  /\ ex[1].pc = "raised"
  /\ ex[1].err = "Error"
  /\ exists(fs0, temp_path(ex[1].table))

\* C5: promotion replaces the prior artifact in one step: when a final
\* artifact existed at the call, the final name holds an artifact in every
\* state of the export.
C5_PromotionAtomic ==
  \A p \in Procs :
    (ex[p].pc # "idle" /\ ex[p].final0 # Absent) => exists(fs, final_path(ex[p].table))

\* C6: a run that completes leaves no temp artifact and, for every table, the
\* metadata rows equal the final artifact's rows; when the run before it also
\* completed (the store being unchanged), the metadata rows and the artifacts'
\* rows are those of that run.
C6_Idempotent ==
  (mpc = "exited" /\ exitCode = 0) =>
    /\ \A t \in Tables : ~exists(fs, temp_path(t))
    /\ Len(results) = Len(tables_to_export)
    /\ \A i \in 1..Len(results) :
         /\ results[i].table_name = tables_to_export[i]
         /\ exists(fs, results[i].file_path)
         /\ results[i].rows = fs[results[i].file_path].num_rows
    /\ prev.exit = 0 =>
         \A i \in 1..Len(results) :
           /\ results[i].rows = prev.results[i].rows
           /\ fs[results[i].file_path].num_rows = fs0[results[i].file_path].num_rows

\* Two completed runs in a row over a store with rows.
C6_Witness ==
  /\ run = 2
  /\ mpc = "exited"
  /\ exitCode = 0
  /\ prev.exit = 0
  /\ \E t \in Tables : Len(store[t]) > 0

\* C7 as stated: after a table failed its integrity check the run has still
\* attempted every table and holds the metadata of those that succeeded.
C7_ContinuesAfterIntegrityFailure ==
  (mpc = "exited" /\ ex[1].pc = "raised" /\ ex[1].err = "ValueError") =>
    /\ attempted = tables_to_export
    /\ Len(results) >= idx - 1

\* C7 amended: when the export of a table fails its integrity check, the run
\* aborts: no later table is attempted, export_all_tables yields nothing (the
\* artifacts of the tables exported before it stay), and main exits with
\* status 1 without writing the manifest.
C7_AbortsOnIntegrityFailure ==
  (ex[1].pc = "raised" /\ ex[1].err = "ValueError") =>
    /\ mpc \in {"in_export", "exited", "crashed"}
    /\ attempted = SubSeq(tables_to_export, 1, idx)
    /\ attempted[idx] = ex[1].table
    /\ \A i \in 1..(idx - 1) : fs[final_path(tables_to_export[i])].by = <<run, 1>>
    /\ readme.by # run
    /\ mpc = "exited" => exitCode = 1 /\ results = <<>> /\ message = "FATAL ERROR"

\* The second table failed its integrity check after the first was exported;
\* the third was never attempted.
C7_Witness ==
  /\ mpc = "exited"
  /\ ex[1].pc = "raised"
  /\ ex[1].err = "ValueError"
  /\ idx = 2
  /\ fs[final_path(TABLE_WELLS)].by = <<run, 1>>

\* C8 as stated: with an unwritable destination no table export is attempted
\* and no table is read.
C8_PreflightBeforeAnyTable ==
  (dirMode # "writable" /\ run >= 1) => attempted = <<>> /\ reads = {}

\* C8 amended: with an unwritable destination the run ends with status 1 and
\* writes no temp or final artifact; the permission error is what main reports
\* unless the database is missing or the read of the first table failed.  A
\* destination that cannot be created fails before any table; one that exists
\* read-only fails at the first table's temp-file write, after that table was
\* read.
C8_UnwritableFailsWithoutArtifacts ==
  (dirMode # "writable" /\ run >= 1) =>
    /\ fs = fs0
    /\ Len(attempted) <= 1
    /\ reads \subseteq {TABLE_WELLS}
    /\ dirMode = "uncreatable" => attempted = <<>> /\ reads = {}
    /\ mpc = "exited" =>
         /\ exitCode = 1
         /\ \/ ~dbExists /\ message = "Database not found"
            \/ message = "Permission denied"
            \/ ex[1].pc = "raised" /\ ex[1].err = "Error" /\ message = "FATAL ERROR"

\* A read-only destination: wells was read, then the write was refused.
C8_Witness ==
  /\ dirMode = "readonly"
  /\ mpc = "exited"
  /\ message = "Permission denied"
  /\ reads = {TABLE_WELLS}
  /\ ex[1].err = "PermissionError"

\* C9: no step of an export run changes the rows of the store.
C9_StoreUnchanged == [][store' = store]_vars

\* A run over a store with rows has completed, and another has failed.
C9_Witness ==
  /\ run = 2
  /\ mpc = "exited"
  /\ prev.exit = 0
  /\ exitCode = 1
  /\ \A t \in Tables : Len(store[t]) > 0

\* The files of the table exporter p works on.
OwnFilesUnchanged(p) ==
  /\ fs'[temp_path(tables_to_export[p])] = fs[temp_path(tables_to_export[p])]
  /\ fs'[final_path(tables_to_export[p])] = fs[final_path(tables_to_export[p])]

\* What an export that runs alone ends with.
OutcomeAsAlone(p) ==
  LET t == tables_to_export[p]
  IN /\ ex[p].pc \in {"validate", "promote", "rename"} => fs[temp_path(t)].by = <<run, p>>
     /\ ex[p].pc \in {"idle", "mkdir", "read", "write", "writing", "validate", "promote"} =>
          fs[final_path(t)] = fs0[final_path(t)]
     /\ ex[p].pc = "returned" =>
          /\ fs[final_path(t)] = Artifact(Len(store[t]), TRUE, TRUE, <<run, p>>)
          /\ ~exists(fs, temp_path(t))
     /\ ex[p].pc = "raised" =>
          /\ ~exists(fs, temp_path(t))
          /\ fs[final_path(t)] \in {fs0[final_path(t)], Absent}

\* C10: with exports of different tables running at once, the temp and final
\* files of a table change only in steps of that table's export, and every
\* export ends as it does alone.
C10_NoInterference ==
  /\ [][\A p \in Procs : ex'[p] = ex[p] => OwnFilesUnchanged(p)]_vars
  /\ [](\A p \in Procs : OutcomeAsAlone(p))

\* All three exports are under way at once, at different steps.
C10_Witness ==
  /\ ex[1].pc = "validate"
  /\ ex[2].pc = "rename"
  /\ ex[3].pc = "writing"

\* C11: main runs the stages strictly in the order Wells, Daily, Monthly.
\* The stages started so far are always a prefix of that order, a stage is
\* started only when every stage before it has returned without an error,
\* after a stage has raised no further stage is started, and no row is in
\* Daily or Monthly that was not there before the run unless the Wells stage
\* has returned.
C11_StagesInOrder ==
  LET order == <<TABLE_WELLS, TABLE_DAILY_PRODUCTION, TABLE_MONTHLY_PRODUCTION>>
  IN /\ ld.started = SubSeq(order, 1, Len(ld.started))
     /\ ld.done = SubSeq(ld.started, 1, Len(ld.done))
     /\ Len(ld.started) <= Len(ld.done) + 1
     /\ (Len(ld.started) > Len(ld.done) => ld.pc \in {"except", "raised"})
     /\ (\/ store[TABLE_DAILY_PRODUCTION] # ld.store0[TABLE_DAILY_PRODUCTION]
         \/ store[TABLE_MONTHLY_PRODUCTION] # ld.store0[TABLE_MONTHLY_PRODUCTION])
        => (Len(ld.done) >= 1 /\ ld.done[1] = TABLE_WELLS)

\* All three stages have returned and each of them appended rows.
C11_Witness ==
  /\ ld.done = <<TABLE_WELLS, TABLE_DAILY_PRODUCTION, TABLE_MONTHLY_PRODUCTION>>
  /\ \A t \in Tables : Len(store[t]) > 0

\* C12: when the Monthly stage raises, the rows the Wells and Daily stages
\* appended stay in the store as they were appended, Monthly holds what it
\* held before the run, and the error leaves main: the run ends with a
\* non-zero exit and the error of the stage.
C12_NoRollbackWhenMonthlyFails ==
  (/\ ld.started = <<TABLE_WELLS, TABLE_DAILY_PRODUCTION, TABLE_MONTHLY_PRODUCTION>>
   /\ Len(ld.done) = 2)
  => /\ ld.pc \in {"except", "raised"}
     /\ store[TABLE_WELLS] = ld.store0[TABLE_WELLS] \o wells_df(ld.daily_df)
     /\ Len(store[TABLE_WELLS]) = Len(ld.store0[TABLE_WELLS]) + ld.counts[1]
     /\ store[TABLE_DAILY_PRODUCTION] =
          ld.store0[TABLE_DAILY_PRODUCTION] \o daily_production_df(ld.daily_df)
     /\ Len(store[TABLE_DAILY_PRODUCTION]) = Len(ld.store0[TABLE_DAILY_PRODUCTION]) + ld.counts[2]
     /\ store[TABLE_MONTHLY_PRODUCTION] = ld.store0[TABLE_MONTHLY_PRODUCTION]
     /\ ld.err \in {"KeyError", "IntegrityError"}
     /\ (ld.pc = "raised" => ld.exit = 1 /\ ld.validation = "none")

\* The Monthly stage raised after Wells and Daily appended rows, and main
\* has ended.
C12_Witness ==
  /\ ld.pc = "raised"
  /\ ld.started = <<TABLE_WELLS, TABLE_DAILY_PRODUCTION, TABLE_MONTHLY_PRODUCTION>>
  /\ Len(ld.done) = 2
  /\ Len(store[TABLE_WELLS]) > 0
  /\ Len(store[TABLE_DAILY_PRODUCTION]) > 0

\* C13: the validator is called at most once in a run, only after all three
\* stages have returned; a run that reaches its summary has called it exactly
\* once and prints its verdict.  When the verdict is FAILED the run still
\* ends without an error (exit 0) and every row the stages loaded is in the
\* store.
C13_ValidatedOnceVerdictSurfaced ==
  /\ ld.calls <= 1
  /\ (ld.calls = 1 => ld.done = <<TABLE_WELLS, TABLE_DAILY_PRODUCTION, TABLE_MONTHLY_PRODUCTION>>)
  /\ (vd.pc # "idle" => ld.calls = 1)
  /\ (vd.pc = "returned" => ld.pc \in {"validating", "done"})
  /\ ld.pc = "done" =>
       /\ ld.calls = 1
       /\ vd.pc = "returned"
       /\ ld.validation = (IF vd.ret.all_passed THEN "PASSED" ELSE "FAILED")
       /\ ld.exit = 0
       /\ ld.err = "none"
       /\ \A i \in 1..3 : Len(store[ld.done[i]]) = Len(ld.store0[ld.done[i]]) + ld.counts[i]
       /\ store[TABLE_DAILY_PRODUCTION] =
            ld.store0[TABLE_DAILY_PRODUCTION] \o daily_production_df(ld.daily_df)
       /\ store[TABLE_MONTHLY_PRODUCTION] =
            ld.store0[TABLE_MONTHLY_PRODUCTION] \o monthly_production_df(ld.monthly_df.rows)

\* A run whose validation failed on loaded rows has ended with its summary.
C13_Witness ==
  /\ ld.pc = "done"
  /\ ld.validation = "FAILED"
  /\ Len(store[TABLE_MONTHLY_PRODUCTION]) > 0
  /\ Len(store[TABLE_WELLS]) > 0

\* C14: validate_data_integrity is collect-all.  The checks run in the order
\* 1 to 5, and a call that returns has executed every one of the five,
\* whichever of them failed; a check that fails does not end the call.
C14_CollectAll ==
  /\ vd.checks = SubSeq(<<1, 2, 3, 4, 5>>, 1, Len(vd.checks))
  /\ (vd.pc = "returned" => vd.checks = <<1, 2, 3, 4, 5>>)
  /\ (~vd.all_passed => vd.pc \notin {"idle", "connect", "check1", "raised"})

\* Check 1 failed (Wells is empty), and the later checks still ran: the
\* orphans of checks 2 and 3 and the monthly duplicates of check 5 are in the
\* report of the same call.
C14_Witness ==
  /\ vd.pc = "returned"
  /\ vd.report = <<Line("empty", TABLE_WELLS, 0), Line("orphans", TABLE_DAILY_PRODUCTION, 1),
                   Line("orphans", TABLE_MONTHLY_PRODUCTION, 2),
                   Line("duplicates", TABLE_MONTHLY_PRODUCTION, 1)>>

\* C15: the validator returns True exactly when all three tables have rows,
\* every Daily and Monthly row has a wellbore code that some Well carries,
\* and no two rows of Daily, and no two rows of Monthly, have the same date
\* and wellbore code.
C15_VerdictIffValid ==
  vd.pc = "returned" =>
    (vd.ret.all_passed <=>
       /\ \A t \in Tables : store[t] # <<>>
       /\ \A t \in {TABLE_DAILY_PRODUCTION, TABLE_MONTHLY_PRODUCTION} :
            /\ \A i \in DOMAIN store[t] :
                 \E j \in DOMAIN store[TABLE_WELLS] : store[TABLE_WELLS][j].code = store[t][i].code
            /\ \A i, j \in DOMAIN store[t] :
                 i # j => ~(store[t][i].date = store[t][j].date /\ store[t][i].code = store[t][j].code))

\* The validator returned True on a store with two daily and two monthly rows.
C15_Witness ==
  /\ vd.pc = "returned"
  /\ vd.ret.all_passed
  /\ Len(store[TABLE_DAILY_PRODUCTION]) = 2
  /\ Len(store[TABLE_MONTHLY_PRODUCTION]) = 2

\* C16 as stated: the value the validator returns carries, for every failed
\* check, its violation count.
C16_ReturnsViolationCounts ==
  vd.pc = "returned" => vd.ret.counts = vd.report

\* C16 amended: the validator returns the boolean alone; the violation count
\* of a failed check is printed.  For a referential check the printed count
\* is the number of Daily (Monthly) rows whose wellbore code no Well carries,
\* and nothing is printed as a failure when that number is zero.
C16_CountsPrintedNotReturned ==
  vd.pc = "returned" =>
    /\ vd.ret.counts = <<>>
    /\ \A t \in {TABLE_DAILY_PRODUCTION, TABLE_MONTHLY_PRODUCTION} :
         LET n == Cardinality({i \in DOMAIN store[t] :
                      \A j \in DOMAIN store[TABLE_WELLS] : store[TABLE_WELLS][j].code # store[t][i].code})
         IN /\ n > 0 => \E k \in DOMAIN vd.report : vd.report[k] = Line("orphans", t, n)
            /\ \A k \in DOMAIN vd.report :
                 (vd.report[k].check = "orphans" /\ vd.report[k].table = t) =>
                   (n > 0 /\ vd.report[k].count = n)

\* A store that is valid but for one orphaned daily row: the report is that
\* one violation, with the count 1.
C16_Witness ==
  /\ vd.pc = "returned"
  /\ ~vd.ret.all_passed
  /\ Len(store[TABLE_DAILY_PRODUCTION]) = 2
  /\ vd.report = <<Line("orphans", TABLE_DAILY_PRODUCTION, 1)>>

\* C17: the count the duplicate check reports for Daily (Monthly) is the
\* number of distinct (date, wellbore code) pairs that more than one row
\* carries, not the number of rows that carry them; nothing is reported when
\* there is no such pair.
C17_DuplicateCountIsPairs ==
  vd.pc = "returned" =>
    \A t \in {TABLE_DAILY_PRODUCTION, TABLE_MONTHLY_PRODUCTION} :
      LET pairs == {<<store[t][i].date, store[t][i].code>> :
                      i \in {i \in DOMAIN store[t] :
                               \E j \in DOMAIN store[t] :
                                 /\ j # i
                                 /\ store[t][j].date = store[t][i].date
                                 /\ store[t][j].code = store[t][i].code}}
          n == Cardinality(pairs)
      IN /\ n > 0 => \E k \in DOMAIN vd.report : vd.report[k] = Line("duplicates", t, n)
         /\ \A k \in DOMAIN vd.report :
              (vd.report[k].check = "duplicates" /\ vd.report[k].table = t) =>
                (n > 0 /\ vd.report[k].count = n)

\* Two monthly rows with the same date and code: one pair reported, not two
\* rows.
C17_Witness ==
  /\ vd.pc = "returned"
  /\ Len(store[TABLE_MONTHLY_PRODUCTION]) = 2
  /\ store[TABLE_MONTHLY_PRODUCTION][1] = store[TABLE_MONTHLY_PRODUCTION][2]
  /\ \E k \in DOMAIN vd.report : vd.report[k] = Line("duplicates", TABLE_MONTHLY_PRODUCTION, 1)

\* C18: no step of validate_data_integrity changes the store.
C18_ValidatorReadOnly == [][vd' # vd => store' = store]_vars

\* The validator has returned a failure on a store with orphaned monthly rows.
C18_Witness ==
  /\ vd.pc = "returned"
  /\ ~vd.ret.all_passed
  /\ \E k \in DOMAIN vd.report : vd.report[k] = Line("orphans", TABLE_MONTHLY_PRODUCTION, 2)

\* C19: row accounting of the stages that returned.  Daily: the count the
\* stage returns and the number of rows it appended are the number of rows
\* of the daily sheet.  Monthly: the row at index 0 is not loaded, and the
\* count returned and the number of rows appended are the number of the
\* remaining rows minus the rows whose wellbore code is null after coercion;
\* that many are removed, and no row without a code is in the store.
C19_RowAccounting ==
  /\ Len(ld.done) >= 2 =>
       /\ ld.counts[2] = Len(ld.daily_df)
       /\ Len(store[TABLE_DAILY_PRODUCTION]) =
            Len(ld.store0[TABLE_DAILY_PRODUCTION]) + Len(ld.daily_df)
  /\ Len(ld.done) >= 3 =>
       LET rows == ld.monthly_df.rows
           remaining == Len(rows) - 1
           discarded == Cardinality({i \in 2..Len(rows) : rows[i].code \in {NULL, BAD}})
       IN /\ ld.counts[3] = remaining - discarded
          /\ ld.removed_count = discarded
          /\ Len(store[TABLE_MONTHLY_PRODUCTION]) =
               Len(ld.store0[TABLE_MONTHLY_PRODUCTION]) + remaining - discarded
          /\ \A k \in DOMAIN store[TABLE_MONTHLY_PRODUCTION] :
               store[TABLE_MONTHLY_PRODUCTION][k].code # NULL

\* A unit row and two data rows, one of them without a wellbore code: one
\* row loaded, one discarded; two daily rows loaded.
C19_Witness ==
  /\ Len(ld.done) = 3
  /\ Len(ld.monthly_df.rows) = 3
  /\ ld.counts[3] = 1
  /\ ld.removed_count = 1
  /\ ld.counts[2] = 2

\* C20 as stated: in the Monthly stage a value that cannot be parsed, in any
\* numeric-looking column, Year and Month included, never makes the stage
\* fail.  So a Monthly stage that raised was given a sheet with a column
\* missing, or two rows with a wellbore code and the same parsable year,
\* month and code; and a stage that returned loaded every row that has a
\* wellbore code.
C20_UnparsableNeverFailsStage ==
  LET rows == ld.monthly_df.rows
      valid == {i \in 2..Len(rows) : rows[i].code \notin {NULL, BAD}}
      clash == \E i, j \in valid :
                 /\ i # j
                 /\ rows[i].year # BAD /\ rows[i].month # BAD
                 /\ rows[i].code = rows[j].code
                 /\ rows[i].year = rows[j].year
                 /\ rows[i].month = rows[j].month
  IN /\ (/\ ld.started = <<TABLE_WELLS, TABLE_DAILY_PRODUCTION, TABLE_MONTHLY_PRODUCTION>>
         /\ Len(ld.done) = 2)
        => (~ld.monthly_df.complete \/ clash)
     /\ Len(ld.done) = 3 => ld.counts[3] = Cardinality(valid)

\* C21 as stated: the rows load_wells_table hands to the store have pairwise
\* distinct wellbore codes, and every wellbore code of the daily sheet is
\* among them.
C21_OneWellPerCode ==
  Len(ld.started) >= 1 =>
    LET df == wells_df(ld.daily_df)
    IN /\ \A i, j \in DOMAIN df : i # j => df[i].code # df[j].code
       /\ \A k \in DOMAIN ld.daily_df : \E i \in DOMAIN df : df[i].code = ld.daily_df[k].code

\* C22 as stated: after a load in which all three stages returned, every
\* Daily row and every Monthly row of the store has exactly one Well with
\* its wellbore code.
C22_ReferentialCompleteness ==
  ld.done = <<TABLE_WELLS, TABLE_DAILY_PRODUCTION, TABLE_MONTHLY_PRODUCTION>> =>
    \A t \in {TABLE_DAILY_PRODUCTION, TABLE_MONTHLY_PRODUCTION} :
      \A i \in DOMAIN store[t] :
        Cardinality({j \in DOMAIN store[TABLE_WELLS] :
                       store[TABLE_WELLS][j].code = store[t][i].code}) = 1

\* C23: in every state of the store, whatever stages have run and failed,
\* in a first run or in a repeated one, no two Daily rows and no two Monthly
\* rows have the same date and wellbore code.
C23_KeysUnique ==
  \A t \in {TABLE_DAILY_PRODUCTION, TABLE_MONTHLY_PRODUCTION} :
    \A i, j \in DOMAIN store[t] :
      (store[t][i].date = store[t][j].date /\ store[t][i].code = store[t][j].code) => i = j

\* A second run offered a Monthly row whose date and code the first run had
\* loaded: the append was rejected and the store keeps the first row.
C23_Witness ==
  /\ ld.run = 2
  /\ ld.started = <<TABLE_WELLS, TABLE_DAILY_PRODUCTION, TABLE_MONTHLY_PRODUCTION>>
  /\ ld.err = "IntegrityError"
  /\ ld.monthly_df.rows = <<UnitRow, [code |-> 1, year |-> 1, month |-> 1, oil |-> 1]>>
  /\ Len(store[TABLE_MONTHLY_PRODUCTION]) = 1
  /\ Len(store[TABLE_DAILY_PRODUCTION]) = 2

\* C28 as stated: the load is resumable.  A second run, made after a first
\* run in which Wells and Daily returned and Monthly raised, on the store
\* that run left, with the same daily sheet and a monthly sheet the stage
\* can load, ends with all three stages returned.
C28_Resumable ==
  (/\ ld.run = 2
   /\ ld.prev.done = <<TABLE_WELLS, TABLE_DAILY_PRODUCTION>>
   /\ ld.prev.err \in {"KeyError", "IntegrityError"}
   /\ ld.pc \in {"raised", "done"}
   /\ ld.store0[TABLE_WELLS] = wells_df(ld.daily_df)
   /\ ld.store0[TABLE_DAILY_PRODUCTION] = daily_production_df(ld.daily_df)
   /\ ld.store0[TABLE_MONTHLY_PRODUCTION] = <<>>
   /\ ld.monthly_df.complete
   /\ ~IntegrityError(TABLE_MONTHLY_PRODUCTION, <<>>, monthly_production_df(ld.monthly_df.rows)))
  => /\ ld.pc = "done"
     /\ ld.done = <<TABLE_WELLS, TABLE_DAILY_PRODUCTION, TABLE_MONTHLY_PRODUCTION>>
     /\ store[TABLE_MONTHLY_PRODUCTION] = monthly_production_df(ld.monthly_df.rows)

\* C25 as stated: a run of the load pipeline that found the source workbook
\* or the database missing ends with a non-zero exit, has started no stage
\* and has appended no row.
C25_MissingInputsFailRun ==
  (ld.pc \in {"returned", "raised", "done"} /\ (~srcExists \/ ~dbExists)) =>
    /\ ld.exit # 0
    /\ ld.started = <<>>
    /\ store = ld.store0

\* C24: a run of the export CLI that has exited did so with status 1 and a
\* printed message in each of these cases: the database file is missing
\* (the message is 'Database not found' and no table export was attempted),
\* the destination is not writable, the export of a table failed its
\* row-count check.  A run that exits with status 0 exported every table.
C24_CliFailsLoudly ==
  mpc = "exited" =>
    /\ ~dbExists => (exitCode = 1 /\ message = "Database not found" /\ attempted = <<>>)
    /\ (dbExists /\ dirMode # "writable") => (exitCode = 1 /\ message # "")
    /\ (ex[1].pc = "raised" /\ ex[1].err = "ValueError") =>
         (exitCode = 1 /\ message = "FATAL ERROR")
    /\ exitCode = 0 => (dbExists /\ dirMode = "writable" /\ Len(results) = Len(tables_to_export))

\* The export of the second table failed its row-count check and the CLI
\* exited with status 1.
C24_Witness ==
  /\ mpc = "exited"
  /\ exitCode = 1
  /\ message = "FATAL ERROR"
  /\ ex[1].err = "ValueError"
  /\ attempted = <<TABLE_WELLS, TABLE_DAILY_PRODUCTION>>

\* C27 as stated: the source count in the comparison is the count of the
\* rows read in step 1, so the comparison never fails because the table
\* changed after the read.
C27_ComparesStepOneCount ==
  \A p \in Procs :
    /\ ex[p].db_count # 0 - 1 => ex[p].db_count = ex[p].row_count
    /\ ex[p].pc # "mismatch"

\* C27 amended: the source count in the comparison is a fresh COUNT(*) taken
\* when validate_row_count runs, and the export passes exactly when that
\* count equals the row count of the temp artifact.
C27_ComparesFreshCount ==
  [][\A p \in Procs :
       (ex[p].pc = "validate" /\ ex'[p].pc \in {"promote", "mismatch"}) =>
         /\ ex'[p].db_count = Len(store[ex[p].table])
         /\ ex'[p].parquet_count = ex[p].row_count
         /\ (ex'[p].pc = "promote" <=> Len(store[ex[p].table]) = ex[p].row_count)]_vars

\* A row was appended between the read and the validation: the comparison
\* failed by one row.
C27_Witness ==
  /\ ex[1].pc = "mismatch"
  /\ ex[1].parquet_count = ex[1].row_count
  /\ ex[1].db_count = ex[1].row_count + 1

\* C26 as stated: when the template exists and holds both marker lines, the
\* function returns the template with the lines between a start marker and
\* an end marker after it replaced by the metadata table, everything up to
\* the start marker and from the end marker on unchanged; otherwise it
\* returns the standalone manifest; it never raises.
C26_TemplateRegionReplaced ==
  rd.pc \in {"returned", "raised"} =>
    /\ rd.err = "none"
    /\ IF /\ rd.template_exists
          /\ \E i \in DOMAIN rd.content : rd.content[i] = START_MARKER
          /\ \E i \in DOMAIN rd.content : rd.content[i] = END_MARKER
       THEN \E i, j \in DOMAIN rd.content :
              /\ i < j
              /\ rd.content[i] = START_MARKER
              /\ rd.content[j] = END_MARKER
              /\ rd.out = SubSeq(rd.content, 1, i) \o table_content(rd.results)
                            \o SubSeq(rd.content, j, Len(rd.content))
       ELSE rd.out = default_readme(rd.results)

\* C30: main writes the manifest only after export_all_tables has returned
\* the results of all three tables.  Once the export of a table has raised,
\* the manifest is not the one of this run and this run does not write it.
C30_ManifestOnlyAfterAllExports ==
  [][/\ readme' # readme =>
          /\ mpc = "readme"
          /\ Len(results) = Len(tables_to_export)
          /\ \A i \in DOMAIN results : results[i].table_name = tables_to_export[i]
          /\ ex[1].pc = "returned"
          /\ readme'.rows = results
     /\ (mpc = "in_export" /\ ex[1].pc = "raised") => (readme' = readme /\ readme.by # run)
     /\ (mpc' = "exited" /\ exitCode' # 0) => (readme' = readme /\ readme.by # run')]_vars

\* The first run wrote the manifest; in the second run the export of a table
\* raised and the manifest of the first run is still there.
C30_Witness ==
  /\ run = 2
  /\ mpc = "exited"
  /\ ex[1].pc = "raised"
  /\ readme.by = 1
  /\ Len(readme.rows) = Len(tables_to_export)

\* C29: two exports of the same table running at once: under every
\* interleaving the file under the final name is absent, or the file that was
\* there before, or a completely written artifact that passed the row-count
\* check and has not been written since.
C29_SameTableFinalChecked ==
  \A t \in Tables :
    LET f == fs[final_path(t)]
    IN \/ ~exists(fs, final_path(t))
       \/ f = fs0[final_path(t)]
       \/ f.complete /\ f.checked

====
